---- MODULE Spec2Model ----
(***************************************************************************)
(* The service fleet orchestrator of boulder's integration tests           *)
(* (test/startservers.py, test/helpers.py): the dependency scheduler       *)
(* _service_toposort, and the fleet controller start / check / stop /      *)
(* startChallSrv / stopChallSrv with its SIGTERM / SIGINT handler.         *)
(*                                                                         *)
(* SpecTopo runs the scheduler alone over every small descriptor table.    *)
(* Spec runs the fleet controller: a driver calls the public operations in *)
(* any order, processes exit on their own, and a termination signal may    *)
(* run stop() between any two steps of the code that is executing.         *)
(***************************************************************************)
EXTENDS Naturals, Sequences, FiniteSets

VARIABLES
    services,        \* the descriptor table (SERVICES)
    gen,             \* the state of the _service_toposort generator
    emitted,         \* how often the generator has yielded each name
    processes,       \* the global list `processes`, a sequence of pids
    challSrvProcess, \* the global `challSrvProcess`: a pid, or None
    procs,           \* every process spawned so far; a pid is an index
    handlers,        \* whether start() has installed the signal handlers
    ctx,             \* the control stack: ctx[1] is the main flow, the rest
                     \* are signal handler invocations, the last one running
    calls,           \* public operations the driver has called so far
    signals,         \* termination signals delivered so far
    crashes,         \* processes that exited without having been signalled
    last,            \* outcome of the main flow's last finished operation
    wp,              \* a call of helpers.waitport() followed on its own
    rn               \* a call of run() followed on its own

vars == <<services, gen, emitted, processes, challSrvProcess, procs,
          handlers, ctx, calls, signals, crashes, last, wp, rn>>

fleetVars == <<processes, challSrvProcess, procs, handlers, ctx, calls,
               signals, crashes, last, wp, rn>>

(***************************************************************************)
(* Bounds of the model.                                                    *)
(***************************************************************************)
NumNames == 3
MaxCalls == 2
MaxSignals == 2
MaxCrashes == 1

None == 0

AllNames == <<"a", "b", "c", "d", "e", "f">>
Names == {AllNames[i] : i \in 1..NumNames}

(***************************************************************************)
(* Service = namedtuple(name, debug_port, grpc_addr, cmd, deps).  A        *)
(* descriptor keeps what the controller reads: its name, its deps (None    *)
(* and () are both the empty set: the code only tests `not s.deps` and     *)
(* membership) and whether grpc_addr is set (the readiness strategy).      *)
(***************************************************************************)
Service(n, grpc, deps) == [name |-> n, grpc |-> grpc, deps |-> deps]

NamesOf(S) == {s.name : s \in S}

\* The table that declares the names D (distinct by construction) with the
\* deps f: a deps entry outside D names a service that does not exist.
Table(D, f) == {Service(n, FALSE, f[n]) : n \in D}

(***************************************************************************)
(* _service_toposort, a generator.  `ready`, `blocked` and `done` are its  *)
(* locals; `cur` is the service it is suspended on at `yield` (its name is *)
(* added to done only when the generator is resumed); `st` is where the    *)
(* generator stands.                                                       *)
(***************************************************************************)
Ready0(S) == {s \in S : s.deps = {}}

\* as if line 135 read any(...) for all(...)
NewReadyAny(blocked, done) == {s \in blocked : s.deps \cap done # {}}

\* as if lines 135-137 were missing: a blocked service never becomes ready
NewReadyNever(blocked, done) == {}

NewReady(blocked, done) == {s \in blocked : s.deps \subseteq done}

GenCreate(S) ==
    [ready |-> Ready0(S), blocked |-> S \ Ready0(S), done |-> {},
     cur |-> None, st |-> "created"]

\* as if line 134 were missing: the yielded service is not added to done
GenResumeSkipsDone(g) ==
    IF g.st # "suspended" THEN g
    ELSE LET done == g.done
             new == NewReady(g.blocked, done)
         IN  [g EXCEPT !.done = done, !.ready = g.ready \cup new,
                       !.blocked = g.blocked \ new, !.cur = None]

\* The generator resumed after its yield: lines 134-137.
GenResume(g) ==
    IF g.st # "suspended" THEN g
    ELSE LET done == g.done \cup {g.cur.name}
             new == NewReady(g.blocked, done)
         IN  [g EXCEPT !.done = done, !.ready = g.ready \cup new,
                       !.blocked = g.blocked \ new, !.cur = None]

\* as if lines 138-142 were missing: the generator ends without raising
GenNextsNoRaise(g) ==
    LET r == GenResume(g)
    IN  IF r.ready # {}
        THEN {[r EXCEPT !.ready = r.ready \ {s}, !.cur = s, !.st = "suspended"]
              : s \in r.ready}
        ELSE {[r EXCEPT !.st = "finished"]}

\* One next() of the generator: every result it can have.  set.pop() takes
\* an arbitrary element of ready.
GenNexts(g) ==
    LET r == GenResume(g)
    IN  IF g.st \in {"finished", "raised"} THEN {[g EXCEPT !.st = "finished"]}
        ELSE IF r.ready # {}
        THEN {[r EXCEPT !.ready = r.ready \ {s}, !.cur = s, !.st = "suspended"]
              : s \in r.ready}
        ELSE IF r.blocked # {} THEN {[r EXCEPT !.st = "raised"]}
        ELSE {[r EXCEPT !.st = "finished"]}

NoCounts == [n \in {} |-> 0]

Count(e, n) == IF n \in DOMAIN e THEN e[n] ELSE 0

Emit(e, g) ==
    IF g.st = "suspended"
    THEN [n \in DOMAIN e \cup {g.cur.name} |-> Count(e, n) + (IF n = g.cur.name THEN 1 ELSE 0)]
    ELSE e

(***************************************************************************)
(* The fleet controller.  A frame of the control stack is one invocation   *)
(* of a public operation with the calls it makes inlined: `op` is the      *)
(* operation, `pc` the statement it is about to execute, the rest are its  *)
(* locals (lst, i: the list a loop iterates and the position in it; p: the *)
(* process at hand; ok, bad: check()'s stillok and whether busted is       *)
(* non-empty; gate: whose readiness waitport is polling).  `spawned`,       *)
(* `passed` and `clean` are history: the names this start() has spawned,   *)
(* the names whose readiness gate has succeeded in it, and whether nothing *)
(* was recorded as running on entry.                                       *)
(***************************************************************************)
Idle == [op |-> "none", pc |-> "idle", lst |-> <<>>, i |-> 0, p |-> None,
         ok |-> <<>>, bad |-> FALSE, gate |-> "none", spawned |-> {},
         passed |-> {}, clean |-> FALSE]

NoResult == [op |-> "none", ret |-> "none", exc |-> "none"]

\* The descriptor tables the fleet is run over, each a small SERVICES: a
\* port-gated service and a health-gated one that needs it, and two
\* independent port-gated services.
FleetTables ==
    {{Service("a", FALSE, {}), Service("b", TRUE, {"a"})},
     {Service("a", FALSE, {}), Service("b", FALSE, {})}}

\* No call of waitport() is being followed on its own.
WpIdle ==
    [pc |-> "idle", hasCheck |-> FALSE, tick |-> 0, port |-> "refused",
     checks |-> 0, connects |-> 0, refused |-> 0, res |-> "none"]

\* The environment variables followed: the two run() sets and one it does
\* not touch.  An environment maps each to its value, or to Unset.
EnvVars == {"GORACE", "FAKECLOCK", "PATH"}

Unset == "<unset>"

EmptyEnv == [v \in EnvVars |-> Unset]

\* No call of run() is being followed on its own.
RnIdle ==
    [pc |-> "idle", ambient |-> EmptyEnv, fakeclock |-> "None",
     e |-> EmptyEnv, child |-> EmptyEnv]

FleetInit ==
    /\ processes = <<>>
    /\ challSrvProcess = None
    /\ procs = <<>>
    /\ handlers = FALSE
    /\ ctx = <<Idle>>
    /\ calls = 0
    /\ signals = 0
    /\ crashes = 0
    /\ last = NoResult

Top == ctx[Len(ctx)]

Range(s) == {s[k] : k \in 1..Len(s)}

\* A process is "alive", "term" (alive, SIGTERM delivered) or "exited".
Alive(p) == procs[p].st # "exited"

NothingRecorded == processes = <<>> /\ challSrvProcess = None

Frame(op, pc) == [Idle EXCEPT !.op = op, !.pc = pc, !.clean = NothingRecorded]

\* Popen in run(): a new process.
NewProc(name) == [name |-> name, st |-> "alive"]

\* send_signal(SIGTERM): delivered to a live process, nothing otherwise.
Signalled(p) == IF Alive(p) THEN [procs EXCEPT ![p].st = "term"] ELSE procs

\* the process has exited
Exited(p) == [procs EXCEPT ![p].st = "exited"]

\* The statements of start() inside its try block (lines 200-208), with the
\* calls made from there.
\* (mutant) the try block begins after the spawn of line 202
InTryAfterSpawn(f) ==
    /\ f.op = "start"
    /\ \/ f.pc \in {"st_append", "st_health"}
       \/ f.pc \in {"wp_tick", "wp_conn", "ck_poll", "ck_assign"} /\ f.gate = "svc"

InTry(f) ==
    /\ f.op = "start"
    /\ \/ f.pc \in {"st_run", "st_append", "st_health"}
       \/ f.pc \in {"wp_tick", "wp_conn", "ck_poll", "ck_assign"} /\ f.gate = "svc"

\* An exception raised by the running frame, or by a handler into the frame
\* it interrupted: start() turns it into False inside its try block, every
\* other frame lets it through.
RECURSIVE Unwind(_, _)
Unwind(stack, exc) ==
    LET f == stack[Len(stack)]
    IN  IF Len(stack) > 1 THEN Unwind(SubSeq(stack, 1, Len(stack) - 1), exc)
        ELSE IF InTry(f)
        THEN [ctx |-> <<Idle>>, last |-> [op |-> f.op, ret |-> "False", exc |-> exc]]
        ELSE [ctx |-> <<Idle>>, last |-> [op |-> f.op, ret |-> "raise", exc |-> exc]]

(***************************************************************************)
(* A step's effect on the controller.  While the main flow is between two  *)
(* operations no frame holds a process, so the exited processes that       *)
(* neither `processes` nor `challSrvProcess` refers to are unreachable     *)
(* objects: they are dropped and the pids renumbered in order, and the     *)
(* generator of the finished start() is dropped with them.                 *)
(***************************************************************************)
Kept(pr, ps, ch) ==
    {p \in 1..Len(pr) : pr[p].st # "exited" \/ p \in Range(ps) \/ p = ch}

Rank(K, p) == Cardinality({q \in K : q <= p})

Land(c, l, ps, ch, pr, g) ==
    IF c = <<Idle>>
    THEN LET K == Kept(pr, ps, ch)
         IN  /\ ctx' = c
             /\ last' = l
             /\ procs' = [n \in 1..Cardinality(K) |-> pr[CHOOSE p \in K : Rank(K, p) = n]]
             /\ processes' = [n \in 1..Len(ps) |-> Rank(K, ps[n])]
             /\ challSrvProcess' = IF ch = None THEN None ELSE Rank(K, ch)
             /\ gen' = GenCreate(services)
    ELSE /\ ctx' = c
         /\ last' = l
         /\ procs' = pr
         /\ processes' = ps
         /\ challSrvProcess' = ch
         /\ gen' = g

\* the running frame goes on as f
GotoW(f, ps, ch, pr, g) == Land([ctx EXCEPT ![Len(ctx)] = f], last, ps, ch, pr, g)

Goto(f) == GotoW(f, processes, challSrvProcess, procs, gen)

\* The running frame returns: the main flow is idle again with the result
\* recorded, a handler returns into the frame it interrupted.
FinishW(ret, ps, ch, pr) ==
    IF Len(ctx) = 1
    THEN Land(<<Idle>>, [op |-> Top.op, ret |-> ret, exc |-> "none"], ps, ch, pr, gen)
    ELSE Land(SubSeq(ctx, 1, Len(ctx) - 1), last, ps, ch, pr, gen)

Finish(ret) == FinishW(ret, processes, challSrvProcess, procs)

\* the running frame raises
Throw(exc) ==
    Land(Unwind(ctx, exc).ctx, Unwind(ctx, exc).last, processes,
         challSrvProcess, procs, gen)

At(pc) == Top.pc = pc

rest == <<services, emitted, handlers, calls, signals, crashes, wp, rn>>

(***************************************************************************)
(* SpecTopo: the scheduler alone, consumed to its end, over every table.   *)
(***************************************************************************)
InitTopo ==
    /\ \E D \in (SUBSET Names) \ {{}} :
          \E f \in [D -> SUBSET Names] : services = Table(D, f)
    /\ gen = GenCreate(services)
    /\ emitted = NoCounts
    /\ FleetInit
    /\ wp = WpIdle
    /\ rn = RnIdle

TopoStep ==
    /\ gen.st \in {"created", "suspended"}
    /\ gen' \in GenNexts(gen)
    /\ emitted' = Emit(emitted, gen')
    /\ UNCHANGED <<services, fleetVars>>

NextTopo == TopoStep

SpecTopo == InitTopo /\ [][NextTopo]_vars

(***************************************************************************)
(* SpecServices: the scheduler consumed to its end over the declared table. *)
(* SERVICES is the tuple of lines 16-120 in its order of declaration, each  *)
(* descriptor with its name, whether it has a grpc_addr, and its deps (a    *)
(* deps of None is no deps: line 128 tests `not s.deps`).                   *)
(***************************************************************************)
SERVICES ==
    <<Service("boulder-remoteva-a", TRUE, {}),
       Service("boulder-remoteva-b", TRUE, {}),
       Service("boulder-sa-1", TRUE, {}),
       Service("boulder-sa-2", TRUE, {}),
       Service("ct-test-srv", FALSE, {}),
       Service("boulder-publisher-1", TRUE, {}),
       Service("boulder-publisher-2", TRUE, {}),
       Service("mail-test-srv", FALSE, {}),
       Service("ocsp-responder", FALSE,
               {"boulder-ra-1", "boulder-ra-2"}),
       Service("boulder-va-1", TRUE,
               {"boulder-remoteva-a", "boulder-remoteva-b"}),
       Service("boulder-va-2", TRUE,
               {"boulder-remoteva-a", "boulder-remoteva-b"}),
       Service("boulder-ca-a", TRUE,
               {"boulder-sa-1", "boulder-sa-2"}),
       Service("boulder-ca-b", TRUE,
               {"boulder-sa-1", "boulder-sa-2"}),
       Service("akamai-test-srv", FALSE, {}),
       Service("akamai-purger", FALSE,
               {"akamai-test-srv"}),
       Service("s3-test-srv", FALSE, {}),
       Service("crl-storer", FALSE,
               {"s3-test-srv"}),
       Service("ocsp-updater", FALSE,
               {"boulder-ca-a", "boulder-ca-b"}),
       Service("crl-updater", FALSE,
               {"boulder-ca-a", "boulder-ca-b", "boulder-sa-1", "boulder-sa-2", "crl-storer"}),
       Service("boulder-ra-1", TRUE,
               {"boulder-sa-1", "boulder-sa-2", "boulder-ca-a", "boulder-ca-b", "boulder-va-1", "boulder-va-2", "akamai-purger", "boulder-publisher-1", "boulder-publisher-2"}),
       Service("boulder-ra-2", TRUE,
               {"boulder-sa-1", "boulder-sa-2", "boulder-ca-a", "boulder-ca-b", "boulder-va-1", "boulder-va-2", "akamai-purger", "boulder-publisher-1", "boulder-publisher-2"}),
       Service("bad-key-revoker", FALSE,
               {"boulder-ra-1", "boulder-ra-2", "mail-test-srv"}),
       Service("nonce-service-taro", TRUE, {}),
       Service("nonce-service-zinc", TRUE, {}),
       Service("boulder-wfe2", FALSE,
               {"boulder-ra-1", "boulder-ra-2", "boulder-sa-1", "boulder-sa-2", "nonce-service-taro", "nonce-service-zinc"}),
       Service("log-validator", FALSE, {})>>

\* set(services), lines 128-129
ServiceSet == {SERVICES[i] : i \in 1..Len(SERVICES)}

InitServices ==
    /\ services = ServiceSet
    /\ gen = GenCreate(services)
    /\ emitted = NoCounts
    /\ FleetInit
    /\ wp = WpIdle
    /\ rn = RnIdle

SpecServices == InitServices /\ [][NextTopo]_vars

(***************************************************************************)
(* The driver: the main flow, between two operations, calls any public     *)
(* operation.                                                              *)
(***************************************************************************)
MainIdle == Len(ctx) = 1 /\ At("idle")

Call(op, pc) ==
    /\ MainIdle
    /\ calls < MaxCalls
    /\ calls' = calls + 1
    /\ ctx' = <<Frame(op, pc)>>
    /\ last' = NoResult
    /\ UNCHANGED <<services, emitted, processes, challSrvProcess, procs,
                   signals, crashes, wp, rn>>

\* start(): lines 188-189 install the handlers; the generator of line 198 is
\* created here (creating it runs none of its body).
CallStart ==
    /\ Call("start", "cs_none")
    /\ handlers' = TRUE
    /\ gen' = GenCreate(services)

CallCheck == Call("check", "ck_poll") /\ UNCHANGED <<handlers, gen>>

CallStop == Call("stop", "sp_begin") /\ UNCHANGED <<handlers, gen>>

CallStartChallSrv == Call("startChallSrv", "cs_none") /\ UNCHANGED <<handlers, gen>>

CallStopChallSrv == Call("stopChallSrv", "xs_none") /\ UNCHANGED <<handlers, gen>>

(***************************************************************************)
(* startChallSrv(), lines 237-263.                                         *)
(***************************************************************************)
\* (mutant) a recorded sidecar that has exited does not count as recorded
ChallNoneAllowsExited ==
    /\ At("cs_none")
    /\ IF challSrvProcess # None /\ Alive(challSrvProcess)
       THEN Throw("startChallSrv called more than once")
       ELSE Goto([Top EXCEPT !.pc = "cs_run"])
    /\ UNCHANGED rest

\* lines 243-244
ChallNone ==
    /\ At("cs_none")
    /\ IF challSrvProcess # None
       THEN Throw("startChallSrv called more than once")
       ELSE Goto([Top EXCEPT !.pc = "cs_run"])
    /\ UNCHANGED rest

\* line 251: run() raises (the binary cannot be spawned), or the new process
\* is recorded in challSrvProcess.
ChallRun ==
    /\ At("cs_run")
    /\ \/ Throw("spawn")
       \/ GotoW([Top EXCEPT !.pc = "cs_args", !.p = Len(procs) + 1], processes,
                Len(procs) + 1, Append(procs, NewProc("challtestsrv")), gen)
    /\ UNCHANGED rest

\* line 262, the argument ' '.join(challSrvProcess.args): the global is read
\* again.
ChallArgs ==
    /\ At("cs_args")
    /\ IF challSrvProcess = None
       THEN Throw("AttributeError")
       ELSE Goto([Top EXCEPT !.pc = "wp_tick", !.gate = "chall"])
    /\ UNCHANGED rest

(***************************************************************************)
(* waitport(), helpers.py lines 162-178.  The model does not count the     *)
(* 1000 attempts here: a refused attempt is followed by the next tick or,  *)
(* when it was the last one, by the timeout.                               *)
(***************************************************************************)
\* lines 166-167: the tick's sleep, then perTickCheck (check, for a service)
WaitportTick ==
    /\ At("wp_tick")
    /\ Goto([Top EXCEPT !.pc = IF Top.gate = "svc" THEN "ck_poll" ELSE "wp_conn"])
    /\ UNCHANGED rest

\* The readiness gate of f's process succeeded: startChallSrv returns None
\* (line 263 is not taken), start() goes to its loop's next round.
AfterGate(f) ==
    IF f.op = "startChallSrv" THEN Finish("None")
    ELSE Goto([f EXCEPT !.pc = "st_next", !.gate = "none", !.p = None,
                        !.passed = f.passed \cup {procs[f.p].name}])

\* lines 169-178: the connect attempt
WaitportConnect ==
    /\ At("wp_conn")
    /\ \/ AfterGate(Top)
       \/ Goto([Top EXCEPT !.pc = "wp_tick"])
       \/ Throw("timed out waiting for debug port")
       \/ Throw("socket.error")
    /\ UNCHANGED rest

(***************************************************************************)
(* start(), lines 198-214.                                                 *)
(***************************************************************************)
\* line 198: the for statement asks the generator for the next service
StartNext ==
    /\ At("st_next")
    /\ \E g \in GenNexts(gen) :
          CASE g.st = "suspended" ->
                 GotoW([Top EXCEPT !.pc = "st_run"], processes, challSrvProcess, procs, g)
            [] g.st = "finished" -> Finish("True")
            [] OTHER -> Throw("Unable to satisfy service dependencies")
    /\ UNCHANGED rest

\* line 202
StartRun ==
    /\ At("st_run")
    /\ \/ Throw("spawn")
       \/ GotoW([Top EXCEPT !.pc = "st_append", !.p = Len(procs) + 1,
                             !.spawned = Top.spawned \cup {gen.cur.name}],
                processes, challSrvProcess, Append(procs, NewProc(gen.cur.name)), gen)
    /\ UNCHANGED rest

\* (mutant) the process is appended and start() goes on without any gate
StartAppendNoGate ==
    /\ At("st_append")
    /\ GotoW([Top EXCEPT !.pc = "st_next", !.p = None],
             Append(processes, Top.p), challSrvProcess, procs, gen)
    /\ UNCHANGED rest

\* (mutant) every descriptor is gated by the port probe
StartAppendAlwaysPort ==
    /\ At("st_append")
    /\ GotoW([Top EXCEPT !.pc = "wp_tick", !.gate = "svc"],
             Append(processes, Top.p), challSrvProcess, procs, gen)
    /\ UNCHANGED rest

\* lines 203-207: append, then the gate the descriptor asks for
StartAppend ==
    /\ At("st_append")
    /\ GotoW(IF gen.cur.grpc THEN [Top EXCEPT !.pc = "st_health"]
             ELSE [Top EXCEPT !.pc = "wp_tick", !.gate = "svc"],
             Append(processes, Top.p), challSrvProcess, procs, gen)
    /\ UNCHANGED rest

\* (mutant) a failing health check is logged and start() goes on
StartHealthIgnoresFailure ==
    /\ At("st_health")
    /\ \/ AfterGate(Top)
       \/ Goto([Top EXCEPT !.pc = "st_next", !.p = None])
    /\ UNCHANGED rest

\* line 205, waithealth (helpers.py lines 180-184): one run of the checker
StartHealth ==
    /\ At("st_health")
    /\ \/ AfterGate(Top)
       \/ Throw("CalledProcessError")
    /\ UNCHANGED rest

(***************************************************************************)
(* check(), lines 216-235.  The polls of one call are taken at one         *)
(* instant: poll() does not block.                                         *)
(***************************************************************************)
\* (mutant) the survivors are collected in the opposite order
StillOkReversed(lst) ==
    LET s == SelectSeq(lst, LAMBDA p : Alive(p))
    IN  [n \in 1..Len(s) |-> s[Len(s) + 1 - n]]

\* (mutant) check() keeps the exited processes in running
StillOkKeepsAll(lst) == lst

StillOk(lst) == SelectSeq(lst, LAMBDA p : Alive(p))

\* (mutant) the result tells whether nothing is left alive
NoneAlive(lst) == \A p \in Range(lst) : ~Alive(p)

\* (mutant) an exited sidecar counts as busted too
AnyBustedOrSidecar(lst) ==
    \/ \E p \in Range(lst) : ~Alive(p)
    \/ challSrvProcess # None /\ ~Alive(challSrvProcess)

AnyBusted(lst) == \E p \in Range(lst) : ~Alive(p)

\* (mutant) return busted
CheckResultInverted(bad) == bad

\* line 235: return not busted
CheckResult(bad) == ~bad

\* lines 223-229
CheckPoll ==
    /\ At("ck_poll")
    /\ Goto([Top EXCEPT !.pc = "ck_assign", !.ok = StillOk(processes),
                        !.bad = AnyBusted(processes)])
    /\ UNCHANGED rest

\* lines 234-235, and what the caller does with the result: waitport
\* (helpers.py lines 167-168) returns False on a false result and start()
\* (lines 207-208) returns False then.
CheckAssign ==
    /\ At("ck_assign")
    /\ IF Top.op = "check"
       THEN FinishW(IF CheckResult(Top.bad) THEN "True" ELSE "False", Top.ok,
                    challSrvProcess, procs)
       ELSE IF ~CheckResult(Top.bad)
       THEN FinishW("False", Top.ok, challSrvProcess, procs)
       ELSE GotoW([Top EXCEPT !.pc = "wp_conn", !.ok = <<>>, !.bad = FALSE],
                  Top.ok, challSrvProcess, procs, gen)
    /\ UNCHANGED rest

(***************************************************************************)
(* stop(), lines 278-291.                                                  *)
(***************************************************************************)
\* line 284: reversed(processes) is taken of the list as it is now
StopBegin ==
    /\ At("sp_begin")
    /\ Goto([Top EXCEPT !.pc = "sp_poll", !.lst = processes, !.i = Len(processes)])
    /\ UNCHANGED rest

\* lines 284-285: the next element, from the back, and its poll
StopPoll ==
    /\ At("sp_poll")
    /\ IF Top.i = 0 THEN Goto([Top EXCEPT !.pc = "sp_clear", !.lst = <<>>])
       ELSE IF Alive(Top.lst[Top.i]) THEN Goto([Top EXCEPT !.pc = "sp_sig"])
       ELSE Goto([Top EXCEPT !.i = Top.i - 1])
    /\ UNCHANGED rest

\* line 286
StopSignal ==
    /\ At("sp_sig")
    /\ GotoW([Top EXCEPT !.pc = "sp_wait"], processes, challSrvProcess,
             Signalled(Top.lst[Top.i]), gen)
    /\ UNCHANGED rest

\* (mutant) stop() does not wait for the process it has signalled
StopWaitReturnsEarly ==
    /\ At("sp_wait")
    /\ Goto([Top EXCEPT !.pc = "sp_poll", !.i = Top.i - 1])
    /\ UNCHANGED rest

\* line 287: wait() returns once the process has exited; a process that
\* has not exited yet does so, obeying the signal, while wait() blocks
StopWait ==
    /\ At("sp_wait")
    /\ GotoW([Top EXCEPT !.pc = "sp_poll", !.i = Top.i - 1], processes,
             challSrvProcess, Exited(Top.lst[Top.i]), gen)
    /\ UNCHANGED rest

\* (mutant) stop() goes on to the sidecar without emptying running
StopClearKeepsRunning ==
    /\ At("sp_clear")
    /\ Goto([Top EXCEPT !.pc = "xs_none"])
    /\ UNCHANGED rest

\* line 288, then the call of line 291
StopClear ==
    /\ At("sp_clear")
    /\ GotoW([Top EXCEPT !.pc = "xs_none"], <<>>, challSrvProcess, procs, gen)
    /\ UNCHANGED rest

(***************************************************************************)
(* stopChallSrv(), lines 265-276.  Every statement reads the global        *)
(* challSrvProcess again; a method called on None raises AttributeError.   *)
(***************************************************************************)
\* lines 271-272
XsNone ==
    /\ At("xs_none")
    /\ IF challSrvProcess = None THEN Finish("None")
       ELSE Goto([Top EXCEPT !.pc = "xs_poll"])
    /\ UNCHANGED rest

\* line 273
XsPoll ==
    /\ At("xs_poll")
    /\ IF challSrvProcess = None THEN Throw("AttributeError")
       ELSE IF Alive(challSrvProcess) THEN Goto([Top EXCEPT !.pc = "xs_sig"])
       ELSE Goto([Top EXCEPT !.pc = "xs_reset"])
    /\ UNCHANGED rest

\* line 274
XsSignal ==
    /\ At("xs_sig")
    /\ IF challSrvProcess = None THEN Throw("AttributeError")
       ELSE GotoW([Top EXCEPT !.pc = "xs_wait"], processes, challSrvProcess,
                  Signalled(challSrvProcess), gen)
    /\ UNCHANGED rest

\* (mutant) stopChallSrv does not wait for the sidecar it has signalled
XsWaitReturnsEarly ==
    /\ At("xs_wait")
    /\ IF challSrvProcess = None THEN Throw("AttributeError")
       ELSE Goto([Top EXCEPT !.pc = "xs_reset"])
    /\ UNCHANGED rest

\* line 275
XsWait ==
    /\ At("xs_wait")
    /\ IF challSrvProcess = None THEN Throw("AttributeError")
       ELSE GotoW([Top EXCEPT !.pc = "xs_reset"], processes, challSrvProcess,
                  Exited(challSrvProcess), gen)
    /\ UNCHANGED rest

\* (mutant) stopChallSrv forgets the main fleet as well
XsResetClearsRunning ==
    /\ At("xs_reset")
    /\ FinishW("None", <<>>, None, procs)
    /\ UNCHANGED rest

\* (mutant) stopChallSrv leaves the exited sidecar in its slot
XsResetKeepsSlot ==
    /\ At("xs_reset")
    /\ FinishW("None", processes, challSrvProcess, procs)
    /\ UNCHANGED rest

\* line 276
XsReset ==
    /\ At("xs_reset")
    /\ FinishW("None", processes, None, procs)
    /\ UNCHANGED rest

(***************************************************************************)
(* The environment.  A process exits on its own, signalled or not (at most *)
(* MaxCrashes do in a run).  SIGTERM or SIGINT arrives: the handler of     *)
(* lines 188-189 runs stop() on top of whatever is executing.              *)
(***************************************************************************)
ProcCrash ==
    /\ crashes < MaxCrashes
    /\ crashes' = crashes + 1
    /\ \E p \in 1..Len(procs) :
          /\ Alive(p)
          /\ Land(ctx, last, processes, challSrvProcess, Exited(p), gen)
    /\ UNCHANGED <<services, emitted, handlers, calls, signals, wp, rn>>

Signal ==
    /\ handlers
    /\ signals < MaxSignals
    /\ signals' = signals + 1
    /\ ctx' = Append(ctx, Frame("stop", "sp_begin"))
    /\ UNCHANGED <<services, gen, emitted, processes, challSrvProcess, procs,
                   handlers, calls, crashes, last, wp, rn>>

Init ==
    /\ services \in FleetTables
    /\ gen = GenCreate(services)
    /\ emitted = NoCounts
    /\ FleetInit
    /\ wp = WpIdle
    /\ rn = RnIdle

Next ==
    \/ CallStart \/ CallCheck \/ CallStop \/ CallStartChallSrv \/ CallStopChallSrv
    \/ ChallNone \/ ChallRun \/ ChallArgs
    \/ WaitportTick \/ WaitportConnect
    \/ StartNext \/ StartRun \/ StartAppend \/ StartHealth
    \/ CheckPoll \/ CheckAssign
    \/ StopBegin \/ StopPoll \/ StopSignal \/ StopWait \/ StopClear
    \/ XsNone \/ XsPoll \/ XsSignal \/ XsWait \/ XsReset
    \/ ProcCrash \/ Signal

Spec == Init /\ [][Next]_vars

(***************************************************************************)
(* SpecSeq: the public operations alone, one call more than in Spec, with  *)
(* no signal and no process exiting on its own.                            *)
(***************************************************************************)
SeqCall(op, pc) ==
    /\ MainIdle
    /\ calls < MaxCalls + 1
    /\ calls' = calls + 1
    /\ ctx' = <<Frame(op, pc)>>
    /\ last' = NoResult
    /\ UNCHANGED <<services, emitted, processes, challSrvProcess, procs,
                   signals, crashes, wp, rn>>

SeqCallStart ==
    /\ SeqCall("start", "cs_none")
    /\ handlers' = TRUE
    /\ gen' = GenCreate(services)

SeqCallCheck == SeqCall("check", "ck_poll") /\ UNCHANGED <<handlers, gen>>

SeqCallStop == SeqCall("stop", "sp_begin") /\ UNCHANGED <<handlers, gen>>

SeqCallStartChallSrv == SeqCall("startChallSrv", "cs_none") /\ UNCHANGED <<handlers, gen>>

SeqCallStopChallSrv == SeqCall("stopChallSrv", "xs_none") /\ UNCHANGED <<handlers, gen>>

NextSeq ==
    \/ SeqCallStart \/ SeqCallCheck \/ SeqCallStop \/ SeqCallStartChallSrv
    \/ SeqCallStopChallSrv
    \/ ChallNone \/ ChallRun \/ ChallArgs
    \/ WaitportTick \/ WaitportConnect
    \/ StartNext \/ StartRun \/ StartAppend \/ StartHealth
    \/ CheckPoll \/ CheckAssign
    \/ StopBegin \/ StopPoll \/ StopSignal \/ StopWait \/ StopClear
    \/ XsNone \/ XsPoll \/ XsSignal \/ XsWait \/ XsReset

SpecSeq == Init /\ [][NextSeq]_vars

(***************************************************************************)
(* SpecSeqFair: SpecSeq with progress.  An operation in progress takes its  *)
(* next step: every statement of the controller returns, wait() included,   *)
(* since a process that was sent the termination signal exits.  Nothing     *)
(* obliges the driver to call anything.                                     *)
(***************************************************************************)
StepSeq == ~MainIdle /\ NextSeq

SpecSeqFair == Init /\ [][NextSeq]_vars /\ WF_vars(StepSeq)

(***************************************************************************)
(* SpecFail: the sequential driver of SpecSeq with send_signal() and wait() *)
(* allowed to fail.  Both raise OSError when the operating system refuses   *)
(* (lines 286-287 and 274-275); neither stop() nor stopChallSrv() has a try *)
(* statement, so the exception leaves the function.                         *)
(***************************************************************************)
\* line 286: send_signal raises
StopSignalFails ==
    /\ At("sp_sig")
    /\ Throw("OSError")
    /\ UNCHANGED rest

\* line 287: the signal was sent, wait raises
StopWaitFails ==
    /\ At("sp_wait")
    /\ Throw("OSError")
    /\ UNCHANGED rest

\* line 274: send_signal raises
XsSignalFails ==
    /\ At("xs_sig")
    /\ challSrvProcess # None
    /\ Throw("OSError")
    /\ UNCHANGED rest

\* line 275: the signal was sent, wait raises
XsWaitFails ==
    /\ At("xs_wait")
    /\ challSrvProcess # None
    /\ Throw("OSError")
    /\ UNCHANGED rest

NextFail ==
    \/ NextSeq
    \/ StopSignalFails \/ StopWaitFails \/ XsSignalFails \/ XsWaitFails

SpecFail == Init /\ [][NextFail]_vars

(***************************************************************************)
(* SpecBad: the sequential driver of SpecSeq over descriptor tables that    *)
(* cannot be satisfied: a dependency on a name no descriptor has, a         *)
(* descriptor that depends on itself, and a cycle through every descriptor. *)
(***************************************************************************)
BadTables ==
    {{Service("a", FALSE, {}), Service("b", FALSE, {"c"})},
     {Service("a", TRUE, {}), Service("b", FALSE, {"b"})},
     {Service("a", FALSE, {"b"}), Service("b", FALSE, {"a"})}}

InitBad ==
    /\ services \in BadTables
    /\ gen = GenCreate(services)
    /\ emitted = NoCounts
    /\ FleetInit
    /\ wp = WpIdle
    /\ rn = RnIdle

SpecBad == InitBad /\ [][NextSeq]_vars

(***************************************************************************)
(* helpers.waitport(port, prog, perTickCheck), lines 162-178, one call      *)
(* followed statement by statement.  wp.tick counts the iterations of the   *)
(* loop of line 164 entered so far, wp.checks the calls of perTickCheck,    *)
(* wp.connects the calls of s.connect and wp.refused those of them that     *)
(* failed with ECONNREFUSED.  wp.port is what the port would answer in the  *)
(* current iteration: it is the environment's choice, made afresh for every *)
(* iteration.  wp.res is how the call ended: "True" and "False" are the     *)
(* returned values, "error" the re-raised socket.error of line 177 and      *)
(* "timeout" the exception of line 178.                                     *)
(***************************************************************************)
MaxAttempts == 1000

PortStates == {"open", "refused", "error"}

InitWait ==
    /\ services \in FleetTables
    /\ gen = GenCreate(services)
    /\ emitted = NoCounts
    /\ FleetInit
    /\ rn = RnIdle
    /\ \E c \in BOOLEAN :
          wp = [pc |-> "loop", hasCheck |-> c, tick |-> 0, port |-> "refused",
                checks |-> 0, connects |-> 0, refused |-> 0, res |-> "none"]

\* WpLoop with the connect made before perTickCheck is consulted.
WpLoopConnectsFirst ==
    /\ wp.pc = "loop"
    /\ wp.tick < MaxAttempts
    /\ \E st \in PortStates :
          wp' = [wp EXCEPT !.tick = @ + 1, !.port = st, !.pc = "connect"]
    /\ UNCHANGED <<services, gen, emitted, processes, challSrvProcess, procs,
                   handlers, ctx, calls, signals, crashes, last, rn>>

\* Line 164: the for statement either enters the next iteration, up to
\* range(1000), or is exhausted; line 166: the sleep, during which the port
\* takes the state this iteration will find; line 167: perTickCheck is
\* called only when one was given.
WpLoop ==
    /\ wp.pc = "loop"
    /\ wp.tick < MaxAttempts
    /\ \E st \in PortStates :
          wp' = [wp EXCEPT !.tick = @ + 1,
                           !.port = st,
                           !.pc = IF wp.hasCheck THEN "check" ELSE "connect"]
    /\ UNCHANGED <<services, gen, emitted, processes, challSrvProcess, procs,
                   handlers, ctx, calls, signals, crashes, last, rn>>

\* WpTimeout giving up one iteration early.
WpTimeoutEarly ==
    /\ wp.pc = "loop"
    /\ wp.tick >= MaxAttempts - 1
    /\ wp' = [wp EXCEPT !.pc = "done", !.res = "timeout"]
    /\ UNCHANGED <<services, gen, emitted, processes, challSrvProcess, procs,
                   handlers, ctx, calls, signals, crashes, last, rn>>

\* Line 178: the loop is exhausted, the timeout exception is raised.
WpTimeout ==
    /\ wp.pc = "loop"
    /\ wp.tick >= MaxAttempts
    /\ wp' = [wp EXCEPT !.pc = "done", !.res = "timeout"]
    /\ UNCHANGED <<services, gen, emitted, processes, challSrvProcess, procs,
                   handlers, ctx, calls, signals, crashes, last, rn>>

\* Lines 167-168: perTickCheck() is called; a false result returns False.
WpCheck ==
    /\ wp.pc = "check"
    /\ \E r \in BOOLEAN :
          wp' = [wp EXCEPT !.checks = @ + 1,
                           !.pc = IF r THEN "connect" ELSE "done",
                           !.res = IF r THEN @ ELSE "False"]
    /\ UNCHANGED <<services, gen, emitted, processes, challSrvProcess, procs,
                   handlers, ctx, calls, signals, crashes, last, rn>>

\* WpConnect retrying after any socket.error, not only ECONNREFUSED.
WpConnectRetriesAnyError ==
    /\ wp.pc = "connect"
    /\ wp' = [wp EXCEPT !.connects = @ + 1,
                        !.refused = IF wp.port = "refused" THEN @ + 1 ELSE @,
                        !.pc = IF wp.port = "open" THEN "done" ELSE "loop",
                        !.res = IF wp.port = "open" THEN "True" ELSE @]
    /\ UNCHANGED <<services, gen, emitted, processes, challSrvProcess, procs,
                   handlers, ctx, calls, signals, crashes, last, rn>>

\* Lines 169-177: the connect.  It succeeds and True is returned (line 172),
\* or it raises socket.error: ECONNREFUSED is printed and the loop goes on
\* (lines 174-175), any other error is raised again (line 177).
WpConnect ==
    /\ wp.pc = "connect"
    /\ wp' = [wp EXCEPT !.connects = @ + 1,
                        !.refused = IF wp.port = "refused" THEN @ + 1 ELSE @,
                        !.pc = IF wp.port = "refused" THEN "loop" ELSE "done",
                        !.res = CASE wp.port = "open" -> "True"
                                  [] wp.port = "refused" -> @
                                  [] OTHER -> "error"]
    /\ UNCHANGED <<services, gen, emitted, processes, challSrvProcess, procs,
                   handlers, ctx, calls, signals, crashes, last, rn>>

NextWait == WpLoop \/ WpTimeout \/ WpCheck \/ WpConnect

\* Every statement of waitport() returns: the sleep of line 166 is 0.1 s and
\* the connect to localhost answers or fails, so a call that can take a step
\* takes one.
SpecWait == InitWait /\ [][NextWait]_vars /\ WF_vars(NextWait)

(***************************************************************************)
(* run(cmd, fakeclock), lines 172-179, one call followed statement by       *)
(* statement.  rn.ambient is os.environ, rn.fakeclock the argument ("None"  *)
(* for None; "" is the empty string, which `if fakeclock:` takes as false), *)
(* rn.e the dict built, rn.child the environment Popen gives the child.     *)
(***************************************************************************)
AmbientEnvs ==
    {[GORACE |-> g, FAKECLOCK |-> c, PATH |-> q] :
        g \in {Unset, "halt_on_error=1", "log_path=/tmp/race"},
        c \in {Unset, "t1", "t9"},
        q \in {Unset, "/usr/bin"}}

FakeclockArgs == {"None", "", "t1", "t2"}

\* dict.setdefault(k, v): sets k only when the dict has no k.
SetDefault(env, k, v) == IF env[k] = Unset THEN [env EXCEPT ![k] = v] ELSE env

\* the truth value Python gives the argument
Truthy(arg) == arg \notin {"None", ""}

InitRun ==
    /\ services \in FleetTables
    /\ gen = GenCreate(services)
    /\ emitted = NoCounts
    /\ FleetInit
    /\ wp = WpIdle
    /\ \E a \in AmbientEnvs, c \in FakeclockArgs :
          rn = [RnIdle EXCEPT !.pc = "copy", !.ambient = a, !.fakeclock = c]

RunStep(r) ==
    /\ rn' = r
    /\ UNCHANGED <<services, gen, emitted, processes, challSrvProcess, procs,
                   handlers, ctx, calls, signals, crashes, last, wp>>

\* line 173: e = os.environ.copy()
RunCopy ==
    /\ rn.pc = "copy"
    /\ RunStep([rn EXCEPT !.pc = "gorace", !.e = rn.ambient])

\* line 174
RunGorace ==
    /\ rn.pc = "gorace"
    /\ RunStep([rn EXCEPT !.pc = "fakeclock",
                          !.e = SetDefault(rn.e, "GORACE", "halt_on_error=1")])

\* lines 175-176
RunFakeclock ==
    /\ rn.pc = "fakeclock"
    /\ RunStep([rn EXCEPT !.pc = "popen",
                          !.e = IF Truthy(rn.fakeclock)
                                THEN SetDefault(rn.e, "FAKECLOCK", rn.fakeclock)
                                ELSE rn.e])

\* line 177: the child gets e as its environment
RunPopen ==
    /\ rn.pc = "popen"
    /\ RunStep([rn EXCEPT !.pc = "done", !.child = rn.e])

NextRun == RunCopy \/ RunGorace \/ RunFakeclock \/ RunPopen

SpecRun == InitRun /\ [][NextRun]_vars

(***************************************************************************)
(* What the claims about the scheduler speak of, defined from the table    *)
(* alone.                                                                  *)
(***************************************************************************)
DepsExist(S) == \A s \in S : s.deps \subseteq NamesOf(S)

DepEdges(S) == UNION {{<<s.name, d>> : d \in s.deps} : s \in S}

Compose(R) ==
    R \cup UNION {{<<e[1], f[2]>> : f \in {g \in R : g[1] = e[2]}} : e \in R}

RECURSIVE Closure(_, _)
Closure(R, k) == IF k = 0 THEN R ELSE Closure(Compose(R), k - 1)

\* the transitive dependency relation (paths of up to 2^Cardinality(S) edges)
DependsOn(S) == Closure(DepEdges(S), Cardinality(S))

Acyclic(S) == LET R == DependsOn(S) IN \A s \in S : <<s.name, s.name>> \notin R

\* The descriptors that become ready by repeatedly removing, all at once,
\* the descriptors whose deps are all resolved; the stuck ones are the rest.
RECURSIVE Resolved(_, _)
Resolved(S, k) ==
    IF k = 0 THEN {}
    ELSE {s \in S : s.deps \subseteq NamesOf(Resolved(S, k - 1))}

Stuck(S) == S \ Resolved(S, Cardinality(S))

Yielded == {n \in DOMAIN emitted : emitted[n] >= 1}

\* C1: over an acyclic table whose deps all exist the scheduler never raises,
\* yields no descriptor twice, has yielded every descriptor once it ends, and
\* whenever it yields a descriptor every name in its deps was yielded already.
C1_ToposortOrdersAcyclic ==
    (Acyclic(services) /\ DepsExist(services)) =>
        /\ gen.st # "raised"
        /\ \A n \in DOMAIN emitted : emitted[n] <= 1
        /\ gen.st = "finished" => \A s \in services : Count(emitted, s.name) = 1
        /\ gen.st = "suspended" =>
              gen.cur.deps \subseteq Yielded \ {gen.cur.name}
        /\ \A e \in DependsOn(services) : e[1] \in Yielded => e[2] \in Yielded

C1_Witness ==
    /\ Acyclic(services) /\ DepsExist(services)
    /\ Cardinality(services) = 3
    /\ \E s, t \in services : s.deps = {t.name} /\ t.deps # {}
    /\ gen.st = "finished"

\* C2: over a table with a dependency cycle or an undeclared deps name the
\* scheduler never ends normally, and when it raises, the blocked set it
\* reports is exactly the set of descriptors that never become ready.
C2_ToposortReportsStuck ==
    ~(Acyclic(services) /\ DepsExist(services)) =>
        /\ gen.st # "finished"
        /\ gen.st = "raised" => /\ gen.blocked = Stuck(services)
                                /\ gen.blocked # {}
                                /\ gen.ready = {}

C2_Witness ==
    /\ ~Acyclic(services)
    /\ gen.st = "raised"
    /\ Cardinality(gen.blocked) = 2
    /\ LET R == DependsOn(services)
       IN  \E s \in gen.blocked : <<s.name, s.name>> \notin R
    /\ Yielded # {}

(***************************************************************************)
(* What the claims about the fleet speak of.                               *)
(***************************************************************************)
\* the main flow's frame
Main == ctx[1]

\* the step in which the main flow's call of op ends, by return or raise
Returns(op) == Main.op = op /\ Main.pc # "idle" /\ ctx' = <<Idle>>

IsDescriptor(p) == procs[p].name # "challtestsrv"

TermSet == {p \in 1..Len(procs) : procs[p].st = "term"}

C4_FailedStartKeepsLiveDescriptors ==
    (MainIdle /\ last.op = "start" /\ last.ret = "False") =>
        \A p \in 1..Len(procs) :
            (IsDescriptor(p) /\ Alive(p)) =>
                p \in Range(processes) /\ procs[p].st = "alive"

\* the descriptor process start() has spawned and not appended yet
Pending(p) == Main.op = "start" /\ Main.pc = "st_append" /\ Main.p = p

\* C5: while start() runs, at most one spawned descriptor has not passed its
\* readiness gate; when start() is about to spawn a descriptor, every
\* descriptor it spawned before has passed its gate and so has every name in
\* the new descriptor's deps; and while a descriptor's gate is pending, that
\* descriptor is the only one spawned and not passed.
C5_StartSequentialGated ==
    Main.op = "start" =>
        /\ Cardinality(Main.spawned \ Main.passed) <= 1
        /\ Main.pc = "st_run" =>
              /\ Main.spawned \subseteq Main.passed
              /\ gen.cur.deps \subseteq Main.spawned
              /\ gen.cur.name \notin Main.spawned
        /\ (InTry(Main) /\ Main.pc # "st_run") =>
              /\ Main.spawned \ Main.passed = {gen.cur.name}
              /\ gen.cur.deps \subseteq Main.passed
              /\ procs[Main.p].name = gen.cur.name

C5_Witness ==
    /\ Main.op = "start" /\ Main.pc = "st_run"
    /\ gen.cur.deps = {"a"}
    /\ Main.passed = {"challtestsrv", "a"}
    /\ Len(ctx) = 1

\* C6: among the processes of running at most one is signalled and not yet
\* exited; it is the one a stop() is waiting for, and every process appended
\* to running after it has exited; and a stop() has left no process alive
\* behind the position it has reached in running.
C6_StopReverseOrder ==
    /\ Cardinality({p \in TermSet : IsDescriptor(p)}) <= 1
    /\ \A p \in TermSet :
          IsDescriptor(p) =>
             /\ \E k \in 1..Len(ctx) :
                   /\ ctx[k].op = "stop" /\ ctx[k].pc = "sp_wait"
                   /\ ctx[k].lst[ctx[k].i] = p
             /\ \A q \in (p + 1)..Len(procs) :
                   (IsDescriptor(q) /\ ~Pending(q)) => ~Alive(q)
    /\ \A k \in 1..Len(ctx) :
          (ctx[k].op = "stop" /\ ctx[k].pc \in {"sp_poll", "sp_sig", "sp_wait"}) =>
              \A n \in (ctx[k].i + 1)..Len(ctx[k].lst) : ~Alive(ctx[k].lst[n])

C6_Witness ==
    /\ Top.op = "stop" /\ Top.pc = "sp_wait"
    /\ Len(Top.lst) = 2 /\ Top.i = 1
    /\ procs[Top.lst[1]].st = "term"
    /\ procs[Top.lst[2]].st = "exited"
    /\ crashes = 0

\* C7: after a stop() called by the main flow has returned, running is empty,
\* the sidecar is absent and no process is alive; and while a stop() runs that
\* found running empty and the sidecar absent, they stay so and no process
\* is signalled.
C7_StopIdempotent ==
    /\ (MainIdle /\ last.op = "stop" /\ last.ret = "None") =>
          /\ processes = <<>>
          /\ challSrvProcess = None
          /\ \A p \in 1..Len(procs) : ~Alive(p)
    /\ (Top.op = "stop" /\ Top.clean) => (NothingRecorded /\ TermSet = {})

\* C8: a stop() called by the main flow, interrupted or not by handlers that
\* run stop(), never raises, and after it has returned running is empty, the
\* sidecar is absent and no process is alive.
C8_StopReentrantSafe ==
    (MainIdle /\ last.op = "stop") =>
        /\ last.ret = "None"
        /\ processes = <<>>
        /\ challSrvProcess = None
        /\ \A p \in 1..Len(procs) : ~Alive(p)

\* the step in which a check() called by the main flow polls running
PollsIn(op) ==
    /\ Len(ctx) = 1 /\ Main.op = op /\ Main.pc = "ck_poll"
    /\ Len(ctx') = 1 /\ ctx'[1].pc = "ck_assign"

\* the step in which a check() called by the main flow returns its result
CheckReturns == Len(ctx) = 1 /\ Main.pc = "ck_assign" /\ Returns("check")

SomeExited == \E p \in Range(processes) : procs[p].st = "exited"

\* C9, as stated: check() returns True exactly when at least one entry of
\* running had exited when it polled, and False when every entry was alive.
C9_CheckTrueWhenSomeExited ==
    [][/\ PollsIn("check") => (ctx'[1].bad <=> SomeExited)
       /\ CheckReturns => /\ Main.bad => last'.ret = "True"
                          /\ ~Main.bad => last'.ret = "False"]_vars

\* C9, amended: check() returns False exactly when at least one entry of
\* running had exited when it polled, and True when every entry was alive.
C9_CheckFalseWhenSomeExited ==
    [][/\ PollsIn("check") => (ctx'[1].bad <=> SomeExited)
       /\ CheckReturns => /\ Main.bad => last'.ret = "False"
                          /\ ~Main.bad => last'.ret = "True"]_vars

C9_Witness ==
    /\ MainIdle
    /\ last = [op |-> "check", ret |-> "False", exc |-> "none"]
    /\ Len(processes) = 1
    /\ procs[processes[1]].st = "alive"
    /\ crashes = 1
    /\ signals = 0

\* C10: a check() returns True if and only if every process of running is
\* alive when it polls, so True when running is empty, and it keeps exactly
\* those processes in running; in the port gate of start() a false result
\* ends start() at once with False and a true result lets the gate go on to
\* its connection attempt.
C10_CheckTrueIffAllAlive ==
    [][/\ \A op \in {"check", "start"} :
             PollsIn(op) =>
                /\ CheckResult(ctx'[1].bad) <=>
                      \A n \in 1..Len(processes) : Alive(processes[n])
                /\ processes = <<>> => CheckResult(ctx'[1].bad)
                /\ ctx'[1].ok = SelectSeq(processes, LAMBDA q : Alive(q))
       /\ CheckReturns =>
             /\ last'.ret = "True" <=> CheckResult(Main.bad)
             /\ last'.ret \in {"True", "False"}
       /\ (Len(ctx) = 1 /\ Main.op = "start" /\ Main.pc = "ck_assign"
             /\ ctx' # ctx /\ Len(ctx') = 1) =>
             IF CheckResult(Main.bad)
             THEN ctx'[1].op = "start" /\ ctx'[1].pc = "wp_conn"
             ELSE /\ ctx' = <<Idle>>
                  /\ last' = [op |-> "start", ret |-> "False", exc |-> "none"]]_vars

C10_Witness ==
    /\ MainIdle
    /\ last = [op |-> "start", ret |-> "False", exc |-> "none"]
    /\ processes # <<>>
    /\ \A p \in Range(processes) : Alive(p)
    /\ crashes = 1

\* the processes a list of pids refers to, in the order of the list
ProcsOf(pr, lst) == [n \in 1..Len(lst) |-> pr[lst[n]]]

\* how many processes are in state st
InState(pr, st) == Cardinality({p \in 1..Len(pr) : pr[p].st = st})

\* a step taken by the code at one of the positions pcs (not a handler's
\* entry, not the environment)
StepAt(pcs) == Top.pc \in pcs /\ ctx' # ctx /\ Len(ctx') <= Len(ctx)

\* C11: a check() keeps, of running as it polls it, exactly the entries that
\* are alive, in their order, and with them replaces running when it ends;
\* its steps signal no process and end no process.
C11_CheckKeepsSurvivorsInOrder ==
    [][/\ StepAt({"ck_poll"}) =>
             /\ ctx'[Len(ctx')].pc = "ck_assign"
             /\ ctx'[Len(ctx')].ok = SelectSeq(processes, LAMBDA q : Alive(q))
             /\ \A q \in Range(processes) : Alive(q) <=> q \in Range(ctx'[Len(ctx')].ok)
             /\ \A m, n \in 1..Len(ctx'[Len(ctx')].ok) :
                   m < n => \E i, j \in 1..Len(processes) :
                               i < j /\ processes[i] = ctx'[Len(ctx')].ok[m]
                                     /\ processes[j] = ctx'[Len(ctx')].ok[n]
       /\ StepAt({"ck_assign"}) => ProcsOf(procs', processes') = ProcsOf(procs, Top.ok)
       /\ StepAt({"ck_poll", "ck_assign"}) =>
             /\ InState(procs', "term") = InState(procs, "term")
             /\ InState(procs', "alive") = InState(procs, "alive")]_vars

C11_Witness ==
    /\ MainIdle
    /\ last = [op |-> "check", ret |-> "False", exc |-> "none"]
    /\ ProcsOf(procs, processes) = <<[name |-> "b", st |-> "alive"]>>
    /\ challSrvProcess # None

XsPcs == {"xs_none", "xs_poll", "xs_sig", "xs_wait", "xs_reset"}

\* C12: a start() that has spawned a descriptor, or is about to, has spawned
\* the sidecar and seen its port gate succeed; a stop() that has reached the
\* sidecar's teardown has found every process of running exited and has
\* emptied running, so the sidecar is signalled by stop() only then.
C12_SidecarFirstAndLast ==
    /\ (Main.op = "start" /\ (Main.spawned # {} \/ Main.pc = "st_run")) =>
          "challtestsrv" \in Main.passed
    /\ \A k \in 1..Len(ctx) :
          ctx[k].op = "stop" =>
             /\ (ctx[k].pc = "sp_poll" /\ ctx[k].i = 0) =>
                   \A n \in 1..Len(ctx[k].lst) : ~Alive(ctx[k].lst[n])
             /\ ctx[k].pc \in XsPcs => processes = <<>>
    /\ \A p \in TermSet :
          ~IsDescriptor(p) => \E m \in 1..Len(ctx) : ctx[m].pc = "xs_wait"

C12_Witness ==
    /\ Top.op = "stop" /\ Top.pc = "xs_wait" /\ Len(ctx) = 1
    /\ challSrvProcess # None
    /\ procs[challSrvProcess].st = "term"
    /\ Cardinality({p \in 1..Len(procs) : IsDescriptor(p) /\ ~Alive(p)}) = 2
    /\ crashes = 0 /\ signals = 0

\* how many descriptor processes are in state st
DescInState(pr, st) ==
    Cardinality({p \in 1..Len(pr) : pr[p].name # "challtestsrv" /\ pr[p].st = st})

\* the code of startChallSrv (with its port gate) or stopChallSrv is running
InSidecarCode ==
    \/ Top.pc \in XsPcs \cup {"cs_none", "cs_run", "cs_args"}
    \/ Top.pc \in {"wp_tick", "wp_conn"} /\ Top.gate = "chall"

\* C13: no step of startChallSrv() or stopChallSrv(), called on their own or
\* from start() and stop(), in whatever state, changes which processes
\* running holds or their order, and none signals or ends a descriptor
\* process.
C13_SidecarOpsLeaveRunning ==
    [][(InSidecarCode /\ ctx' # ctx /\ Len(ctx') <= Len(ctx)) =>
          /\ ProcsOf(procs', processes') = ProcsOf(procs, processes)
          /\ DescInState(procs', "term") = DescInState(procs, "term")
          /\ DescInState(procs', "alive") = DescInState(procs, "alive")]_vars

C13_Witness ==
    /\ MainIdle
    /\ last = [op |-> "stopChallSrv", ret |-> "None", exc |-> "none"]
    /\ challSrvProcess = None
    /\ Len(processes) = 2
    /\ \A p \in Range(processes) : procs[p].st = "alive"
    /\ signals = 0 /\ crashes = 0

\* C14: running never holds two entries for the same descriptor name, and
\* the sidecar slot never holds more than one process: no process other than
\* the one in the slot is a live sidecar.
C14_NoDuplicateEntries ==
    /\ \A i, j \in 1..Len(processes) :
          i # j => procs[processes[i]].name # procs[processes[j]].name
    /\ \A p \in 1..Len(procs) :
          (~IsDescriptor(p) /\ Alive(p)) => p = challSrvProcess

\* A step of waitport() that calls perTickCheck, and one that calls connect.
WpChecked == wp'.checks = wp.checks + 1

WpConnected == wp'.connects = wp.connects + 1

\* C15: a port gate whose abort predicate answers false ends there with
\* failure and without a connect attempt in that tick, whatever the state of
\* the port; when that happens on the first tick no connect attempt was made
\* at all and the attempt bound is not reached; and in every tick of a gate
\* with an abort predicate the predicate has been evaluated before the connect.
C15_AbortBeforeConnect ==
    [][ /\ (WpChecked /\ wp'.res = "False") =>
              /\ wp'.pc = "done"
              /\ wp'.connects = wp.connects
              /\ wp.connects = wp.tick - 1
              /\ wp.tick = 1 => (wp'.connects = 0 /\ wp'.tick < MaxAttempts)
        /\ (WpConnected /\ wp.hasCheck) => wp.checks = wp.tick
      ]_vars

C15_Witness ==
    /\ wp.hasCheck
    /\ wp.res = "False"
    /\ wp.tick = 1
    /\ wp.port = "open"
    /\ wp.connects = 0

\* C16: waitport() makes at most 1000 connect attempts and always ends; when
\* every attempt was refused and the abort predicate never aborted it ends
\* with the timeout error after exactly 1000 attempts, and it never times out
\* otherwise; it returns success only by a connect that succeeded.
C16_WaitportBounded ==
    /\ [](/\ wp.connects <= MaxAttempts
          /\ wp.res = "timeout" =>
                (wp.connects = MaxAttempts /\ wp.refused = MaxAttempts)
          /\ (wp.pc = "done" /\ wp.refused = wp.connects /\ wp.res # "False")
                => wp.res = "timeout")
    /\ [][ (wp'.res = "True" /\ wp.res # "True") =>
              (WpConnected /\ wp.port = "open" /\ wp'.pc = "done") ]_vars
    /\ <>(wp.pc = "done")

C16_Witness ==
    /\ wp.res = "timeout"
    /\ wp.connects = MaxAttempts
    /\ wp.refused = MaxAttempts

\* C17: a refused connect is not an error, the gate goes on with the next
\* tick; any other connection error ends the gate at once with that error;
\* a successful connect ends the gate with success; an ended gate takes no
\* further step.
C17_ConnectOutcomes ==
    [][ /\ (WpConnected /\ wp.port = "refused") =>
              (wp'.pc = "loop" /\ wp'.res = "none" /\ wp'.tick = wp.tick)
        /\ (wp.pc = "loop" /\ wp.tick < MaxAttempts) =>
              (wp'.tick = wp.tick + 1 /\ wp'.res = "none")
        /\ (WpConnected /\ wp.port = "error") =>
              (wp'.pc = "done" /\ wp'.res = "error")
        /\ (WpConnected /\ wp.port = "open") =>
              (wp'.pc = "done" /\ wp'.res = "True")
        /\ wp.pc = "done" => wp' = wp
      ]_vars

C17_Witness ==
    /\ wp.res = "error"
    /\ wp.refused >= 1
    /\ wp.connects = wp.refused + 1

\* start() itself, not a handler above it, takes a step at the given pcs.
StartStepAt(pcs) ==
    /\ Len(ctx) = 1
    /\ Main.op = "start"
    /\ Main.pc \in pcs
    /\ ctx' # ctx
    /\ Len(ctx') = 1

\* C18: a descriptor with a health command is gated by one run of the health
\* checker: the gate is entered once, from the append of the process just
\* spawned; the run either passes the descriptor's gate or ends start() right
\* there with False, it is never repeated; and the port probe is never used
\* for such a descriptor, the health checker never for any other.
C18_HealthGateOnce ==
    /\ [](Main.op = "start" =>
            /\ Main.pc = "st_health" => gen.cur.grpc
            /\ Main.gate = "svc" => ~gen.cur.grpc)
    /\ [][ /\ StartStepAt({"st_health"}) =>
                 \/ /\ Main'.op = "start"
                    /\ Main'.pc = "st_next"
                    /\ Main'.passed = Main.passed \cup {gen.cur.name}
                    /\ Main'.spawned = Main.spawned
                 \/ /\ Main' = Idle
                    /\ last'.op = "start"
                    /\ last'.ret = "False"
           /\ (Main'.pc = "st_health" /\ Main.pc # "st_health") =>
                 (StartStepAt({"st_append"}) /\ gen.cur.grpc)
         ]_vars

C18_Witness ==
    /\ last.op = "start"
    /\ last.ret = "False"
    /\ last.exc = "CalledProcessError"
    /\ ProcsOf(procs, processes) =
          <<[name |-> "a", st |-> "alive"], [name |-> "b", st |-> "alive"]>>

\* C19: the child's environment is the ambient one overlaid with the
\* configured values: when a clock override is given the child's FAKECLOCK is
\* that override and its GORACE is the configured value, whatever the ambient
\* environment holds for the two; every other variable is passed through.
C19_ChildEnvOverlaid ==
    rn.pc = "done" =>
        /\ Truthy(rn.fakeclock) =>
              /\ rn.child["FAKECLOCK"] = rn.fakeclock
              /\ rn.child["GORACE"] = "halt_on_error=1"
        /\ \A v \in EnvVars \ {"FAKECLOCK", "GORACE"} :
              rn.child[v] = rn.ambient[v]

\* C20: a failure to signal or to join a process during stop() is swallowed:
\* whenever stop() has ended it has not raised, running is empty, the sidecar
\* slot is empty and every process spawned has exited.
C20_StopFailureSwallowed ==
    (MainIdle /\ last.op = "stop") =>
        /\ last.ret # "raise"
        /\ processes = <<>>
        /\ challSrvProcess = None
        /\ \A p \in 1..Len(procs) : procs[p].st = "exited"

\* start() is spawning a descriptor or waiting at its readiness gate
StartingDescriptor ==
    /\ Main.op = "start"
    /\ \/ Main.pc \in {"st_run", "st_append", "st_health"}
       \/ Main.gate = "svc"

\* C21: a start failure of a descriptor never makes start() raise: when
\* start() ends while it is spawning a descriptor or waiting at its gate (by
\* a spawn error, a gate timeout, a gate abort, a connection error other
\* than refused or a failed health command) it ends by returning False.
C21_StartFailureReturnsFalse ==
    [][(StartingDescriptor /\ ctx' = <<Idle>>) =>
          /\ last'.op = "start"
          /\ last'.ret = "False"
          /\ last'.exc \in {"none", "spawn", "timed out waiting for debug port",
                            "socket.error", "CalledProcessError", "AttributeError"}
      ]_vars

C21_Witness ==
    /\ MainIdle
    /\ last = [op |-> "start", ret |-> "False", exc |-> "spawn"]
    /\ ProcsOf(procs, processes) = <<[name |-> "a", st |-> "alive"]>>
    /\ signals = 0

\* C22: when the descriptor table cannot be satisfied, start() fails with the
\* dependency error before any descriptor's process has been spawned: when
\* the error is reported no descriptor process is tracked or alive.
C22_SchedulingErrorBeforeSpawn ==
    (MainIdle /\ last.op = "start"
        /\ last.exc = "Unable to satisfy service dependencies") =>
        /\ processes = <<>>
        /\ \A p \in 1..Len(procs) : IsDescriptor(p) => ~Alive(p)

\* C23: the fleet can be cycled: after a stop() called by the driver has
\* returned, whatever came before it (a start() that returned True, returned
\* False or raised), running is empty, the sidecar is absent and no process
\* is left, as in the initial state; and a start() that begins in that state
\* passes the sidecar's "called more than once" guard and goes on to spawn.
C23_StartStopCycles ==
    /\ []((MainIdle /\ last.op = "stop") =>
            /\ last.ret = "None"
            /\ processes = <<>>
            /\ challSrvProcess = None
            /\ procs = <<>>
            /\ gen = GenCreate(services))
    /\ [][(Main.op = "start" /\ Main.pc = "cs_none" /\ challSrvProcess = None) =>
             (ctx'[1].op = "start" /\ ctx'[1].pc = "cs_run")]_vars

\* the driver's two calls so far were a start() (it installed the handlers)
\* and then a stop(), which has returned
C23_Witness ==
    /\ MainIdle
    /\ calls = 2
    /\ handlers
    /\ last = [op |-> "stop", ret |-> "None", exc |-> "none"]
    /\ processes = <<>>
    /\ challSrvProcess = None

\* C24: start() does not return True when a process it has spawned has
\* exited while it was in progress: at the return of True by the driver's
\* first call, a start(), every descriptor process spawned so far is alive
\* (the sidecar, which crash detection leaves out, is not counted).
C24_StartFalseWhenAnythingDies ==
    [][(Returns("start") /\ calls = 1 /\ last'.ret = "True") =>
          \A p \in 1..Len(procs) : IsDescriptor(p) => Alive(p)]_vars

\* C25: a sidecar start failure is reported like any other start failure:
\* when start() ends while it is spawning the sidecar or waiting at the
\* sidecar's port gate, it ends by returning False and has spawned no
\* descriptor.
C25_SidecarFailureReturnsFalse ==
    [][(Main.op = "start" /\ (Main.pc = "cs_run" \/ Main.gate = "chall")
           /\ ctx' = <<Idle>>) =>
          /\ last'.ret = "False"
          /\ Main.spawned = {}]_vars

\* C26: a termination signal delivered while start() is in progress shuts the
\* fleet down for good: once the driver's first call, a start(), has
\* returned and the one signal delivered so far has been handled, running is
\* empty and no process is alive.
C26_SignalStopsStartForGood ==
    (MainIdle /\ calls = 1 /\ last.op = "start" /\ signals = 1
        /\ last.ret \in {"True", "False"}) =>
        /\ processes = <<>>
        /\ \A p \in 1..Len(procs) : ~Alive(p)

\* C27: stop() terminates and waits for real: every stop() the driver calls
\* returns in the end; each wait() of stop() and of its sidecar teardown
\* ends only with the process it waits for exited; and at the return of
\* stop() every process has exited, none is left signalled and running.
C27_StopTerminates ==
    /\ (Main.op = "stop") ~>
          (MainIdle /\ last = [op |-> "stop", ret |-> "None", exc |-> "none"])
    /\ [][/\ StepAt({"sp_wait"}) => procs'[Top.lst[Top.i]].st = "exited"
          /\ (StepAt({"xs_wait"}) /\ Main.op = "stop") =>
                procs'[challSrvProcess].st = "exited"
          /\ Returns("stop") =>
                \A p \in 1..Len(procs) : procs[p].st = "exited"]_vars

C27_Witness ==
    /\ Main.op = "stop" /\ Main.pc = "xs_reset"
    /\ calls = 2
    /\ Len(procs) = 3
    /\ \A p \in 1..Len(procs) : procs[p].st = "exited"

\* C28: the scheduler is deterministic: whenever the generator yields a
\* descriptor, that descriptor is the only one it could have yielded at that
\* point, so two runs over the same table yield the same sequence.
C28_ToposortDeterministic ==
    [][gen'.st = "suspended" =>
          \A g \in GenNexts(gen) : g.cur = gen'.cur]_vars

\* the declared table satisfies the descriptor invariant: distinct names,
\* every deps entry declared, no descriptor depending on itself, no cycle
DescriptorInvariant ==
    /\ \A i, j \in 1..Len(SERVICES) :
          i # j => SERVICES[i].name # SERVICES[j].name
    /\ DepsExist(ServiceSet)
    /\ \A s \in ServiceSet : s.name \notin s.deps
    /\ Acyclic(ServiceSet)

\* the declared table has n names
DeclaredNames(n) == Len(SERVICES) = n /\ Cardinality(NamesOf(ServiceSet)) = n

\* the scheduler over the declared table never raises and, once it ends, has
\* yielded every declared descriptor exactly once, whatever it picked among
\* the descriptors ready at the same time
SchedulesAllDeclared ==
    /\ services = ServiceSet
    /\ gen.st # "raised"
    /\ \A n \in DOMAIN emitted : emitted[n] <= 1
    /\ gen.st = "finished" => \A s \in ServiceSet : Count(emitted, s.name) = 1

\* C29, as stated: the declared SERVICES table has 27 distinct names and
\* satisfies the descriptor invariant, so _service_toposort(SERVICES) yields
\* every declared service and never raises, for every choice among ready ones.
C29_Services27Satisfiable ==
    DeclaredNames(27) /\ DescriptorInvariant /\ SchedulesAllDeclared

\* C29, amended: the declared SERVICES table has 26 distinct names and
\* satisfies the descriptor invariant, so _service_toposort(SERVICES) yields
\* every declared service and never raises, for every choice among ready ones.
C29_Services26Satisfiable ==
    DeclaredNames(26) /\ DescriptorInvariant /\ SchedulesAllDeclared

C29_Witness ==
    /\ services = ServiceSet
    /\ gen.st = "finished"
    /\ DOMAIN emitted = NamesOf(ServiceSet)
    /\ Cardinality(DOMAIN emitted) = 26

\* the sidecar slot: absent, or the state of the process it holds
SidecarSlot(ch, pr) == IF ch = None THEN "absent" ELSE pr[ch].st

\* C30: the sidecar is left out of crash detection: no step of check()
\* changes the sidecar slot or the sidecar's state, running never holds the
\* sidecar, and the result of check()'s poll is decided by the descriptor
\* processes in running alone, whether the sidecar is alive, exited or absent.
C30_CheckIgnoresSidecar ==
    [][StepAt({"ck_poll", "ck_assign"}) =>
          /\ SidecarSlot(challSrvProcess', procs') = SidecarSlot(challSrvProcess, procs)
          /\ \A p \in Range(processes) : IsDescriptor(p)
          /\ Top.pc = "ck_poll" =>
                (CheckResult(ctx'[Len(ctx')].bad) <=>
                    \A p \in 1..Len(procs) :
                        (IsDescriptor(p) /\ p \in Range(processes)) => Alive(p))
      ]_vars

C30_Witness ==
    /\ MainIdle
    /\ last = [op |-> "check", ret |-> "True", exc |-> "none"]
    /\ SidecarSlot(challSrvProcess, procs) = "exited"
    /\ Len(processes) = 2
    /\ \A p \in Range(processes) : Alive(p)

\* C31: no live descriptor process is ever untracked: in every reachable
\* state a descriptor process that has not exited is an entry of running, or
\* is the process start() has just spawned and is about to append, or is in
\* the list an in-progress stop() is terminating.
C31_LiveDescriptorsTracked ==
    \A p \in 1..Len(procs) :
        (IsDescriptor(p) /\ Alive(p)) =>
            \/ p \in Range(processes)
            \/ Pending(p)
            \/ \E k \in 1..Len(ctx) :
                  ctx[k].op = "stop" /\ p \in Range(ctx[k].lst)

\* C32: crash reporting by check() is one-shot.  A check(), called by the
\* driver or as the port gate's abort predicate, reports a failure exactly
\* when an entry of running has exited at its poll; the entries it reports
\* are not among the survivors it then makes the new running, and entries
\* enter running only by start()'s append and by that assignment: an exit is
\* reported by the first check() that polls after it and by no later one, so
\* a following check() with no new exit reports the fleet as alive.
C32_CrashReportedOnce ==
    [][/\ StepAt({"ck_poll"}) =>
             /\ ~CheckResult(ctx'[Len(ctx')].bad) <=>
                   \E p \in Range(processes) : procs[p].st = "exited"
             /\ \A p \in Range(processes) :
                   procs[p].st = "exited" => p \notin Range(ctx'[Len(ctx')].ok)
             /\ Range(ctx'[Len(ctx')].ok) \subseteq Range(processes)
       /\ StepAt({"ck_assign"}) =>
             ProcsOf(procs', processes') = ProcsOf(procs, Top.ok)
       /\ Len(processes') > Len(processes) => StepAt({"st_append", "ck_assign"})
      ]_vars

\* One start(), one process exit, no signal; the sidecar and b are alive, so
\* the process that exited is a: the check() of b's port gate reported it and
\* ended start(), and the driver's check() that followed found running = [b]
\* and returned True.
C32_Witness ==
    /\ MainIdle
    /\ calls = 2
    /\ last = [op |-> "check", ret |-> "True", exc |-> "none"]
    /\ crashes = 1
    /\ signals = 0
    /\ handlers
    /\ ProcsOf(procs, processes) = <<[name |-> "b", st |-> "alive"]>>
    /\ SidecarSlot(challSrvProcess, procs) = "alive"
    /\ \A p \in 1..Len(procs) : procs[p].name # "a"

\* C33: startChallSrv() begun while a sidecar is recorded, alive or exited,
\* fails with the "called more than once" error, spawns nothing and leaves
\* the sidecar slot and running as they are; stopChallSrv() begun while no
\* sidecar is recorded returns at once and changes nothing; and when a
\* stopChallSrv() ends, the slot is empty and the sidecar it found has exited.
C33_SidecarGuards ==
    /\ [][/\ (StepAt({"cs_none"}) /\ challSrvProcess # None) =>
                /\ ctx' = <<Idle>>
                /\ last'.ret = "raise"
                /\ last'.exc = "startChallSrv called more than once"
                /\ Len(procs') <= Len(procs)
                /\ challSrvProcess' # None
                /\ SidecarSlot(challSrvProcess', procs') = SidecarSlot(challSrvProcess, procs)
                /\ ProcsOf(procs', processes') = ProcsOf(procs, processes)
          /\ (StepAt({"xs_none"}) /\ challSrvProcess = None) =>
                /\ Len(ctx') = Len(ctx) - 1 \/ (ctx' = <<Idle>> /\ last'.ret = "None")
                /\ challSrvProcess' = None
                /\ ProcsOf(procs', processes') = ProcsOf(procs, processes)
                /\ InState(procs', "alive") = InState(procs, "alive")
                /\ InState(procs', "term") = InState(procs, "term")
          /\ StepAt({"xs_reset"}) =>
                /\ challSrvProcess' = None
                /\ challSrvProcess # None => procs[challSrvProcess].st = "exited"
         ]_vars
    /\ []((MainIdle /\ last.op = "stopChallSrv") =>
            /\ challSrvProcess = None
            /\ \A p \in 1..Len(procs) : ~IsDescriptor(p) => procs[p].st = "exited")

C33_Witness ==
    /\ MainIdle
    /\ last = [op |-> "startChallSrv", ret |-> "raise",
               exc |-> "startChallSrv called more than once"]
    /\ SidecarSlot(challSrvProcess, procs) = "exited"
    /\ Len(procs) = 1

\* C34: over an unsatisfiable table every descriptor the scheduler yields
\* comes after all of its dependencies, and when the scheduler raises, the
\* descriptors it has yielded are exactly those outside the stuck set, each
\* yielded once, and no stuck descriptor was yielded.
C34_YieldedBeforeFailure ==
    ~(Acyclic(services) /\ DepsExist(services)) =>
        /\ gen.st = "suspended" =>
              /\ gen.cur.deps \subseteq Yielded \ {gen.cur.name}
              /\ gen.cur \notin Stuck(services)
        /\ gen.st = "raised" =>
              /\ Yielded = NamesOf(services \ Stuck(services))
              /\ \A s \in services \ Stuck(services) : Count(emitted, s.name) = 1
              /\ \A s \in Stuck(services) : Count(emitted, s.name) = 0

C34_Witness ==
    /\ gen.st = "raised"
    /\ Cardinality(services) = 3
    /\ Cardinality(Stuck(services)) = 1
    /\ \E s, t \in services \ Stuck(services) : s.deps = {t.name}

====
